---- MODULE Spec2Model ----
(***************************************************************************)
(* Model of the kubeapply "diff" and "kdiff" subcommands.                  *)
(*                                                                         *)
(*   Spec      diffRun -> diffClusterPath -> execDiff, one step per call   *)
(*             the code makes to a collaborator (config loading, the       *)
(*             kubeconfig match, the cluster client, kubectl diff).        *)
(*   SpecKdiff kdiffRun: argument check, diff.DiffKube, JSON envelope.     *)
(*                                                                         *)
(* A result of a collaborator that depends on the file system or on the   *)
(* live cluster is a nondeterministic choice made when the call is made.   *)
(***************************************************************************)
EXTENDS Integers, Sequences, FiniteSets, Bags, TLC

VARIABLES
    \* ---- diff subcommand ----
    flags,          \* diffFlagValues: [expand, kubeConfig, simpleOutput]
    envKubeconfig,  \* os.Getenv("KUBECONFIG")
    args,           \* diffRun's args
    argIdx,         \* position of the outer loop of diffRun (1-based)
    paths,          \* result of filepath.Glob for the current arg
    pathIdx,        \* position of the inner loop of diffRun (1-based)
    pc,             \* the statement the diff command is at
    clusterConfig,  \* *config.ClusterConfig of the current target
    kubeConfig,     \* local kubeConfig of diffClusterPath
    clientOpen,     \* the KubeClusterClient exists and is not closed
    execRet,        \* what execDiff returned: [results, rawDiffs, err]
    err,            \* what diffClusterPath returned for the current target
    retErr,         \* what diffRun returned
    log,            \* what the diff command logged / printed, in order
    steps,          \* per target: which collaborator calls were made, and how they ended
    origin,         \* per target: the error as the failing step produced it
    trace,          \* diffRun: the calls of diffClusterPath and their returns, in order
    \* ---- kdiff subcommand ----
    trees,          \* the raw two-sided input: the body found at each path argument
    kargs,          \* kdiffRun's args
    kpc,            \* the statement kdiffRun is at
    shortDiff,      \* local shortDiff of kdiffRun
    results,        \* local results of kdiffRun
    wrappedResults, \* local wrappedResults of kdiffRun
    kerr,           \* what kdiffRun returned
    stdout,         \* what kdiffRun wrote to standard output
    parserCalls,    \* the shortDiff argument of every call of diff.DiffKube, in order
    \* ---- concurrent invocations under the per-cluster lock ----
    requests,       \* per invocation: [state, cluster, useLocks, err]
    holders         \* per cluster: the invocations that hold its lock

diffVars == <<flags, envKubeconfig, args, argIdx, paths, pathIdx, pc, clusterConfig,
              kubeConfig, clientOpen, execRet, err, retErr, log, steps, origin,
              trace>>
kdiffVars == <<trees, kargs, kpc, shortDiff, results, wrappedResults, kerr, stdout,
               parserCalls>>
lockVars == <<requests, holders>>
vars == <<diffVars, kdiffVars, lockVars>>

\* ---------------------------------------------------------------- bounds
MaxArgs == 2
MaxOldLen == 2
MaxNewLen == 3
\* Concurrent invocations against the clusters.
NumProcs == 2

\* ---------------------------------------------------------------- values
\* Go's nil (error, slice).
NIL == "nil"

\* The file system the command runs in: two cluster config files.
Glob(arg) ==
    CASE arg = "c1.yaml" -> [paths |-> <<"c1.yaml">>, err |-> NIL]
      [] arg = "c*.yaml" -> [paths |-> <<"c1.yaml", "c2.yaml">>, err |-> NIL]
      [] arg = "x*.yaml" -> [paths |-> <<>>, err |-> NIL]
      [] OTHER -> [paths |-> <<>>, err |-> "ErrBadPattern"]

ArgSet == {"c1.yaml", "c*.yaml", "x*.yaml", "["}

ClusterNames == {"prod-east", "prod-west"}
RecordedUIDs == {"", "abc-123"}
LiveUIDs == {"abc-123", "xyz-789"}
\* kubectl diff's raw output, and the parsed results of the structured diff
\* (a Go slice: nil, empty, or holding records).
RawTexts == {"", "raw-diff"}
NilSlice == [nil |-> TRUE, elems |-> <<>>]
Slice(elems) == [nil |-> FALSE, elems |-> elems]
ResultSets == {NilSlice, Slice(<<>>), Slice(<<"rec">>)}

\* The cluster each kubeconfig file references.
KubeconfigCluster(kc) == IF kc = "flag.kubeconfig" THEN "prod-east" ELSE "prod-west"

KubeconfigMatchesCluster(kc, cluster) == KubeconfigCluster(kc) = cluster

\* Per target: the calls made so far and what they gave back.
\*   kubeconfig, match, client, diff, present: "none" until the step ran
\*   uid: "none", "skip" (no UID recorded) or "called" (GetNamespaceUID was called)
\*   lookups, lookupNS: how often GetNamespaceUID was called, and for which namespace
\*   actualUID, lookupErr: what GetNamespaceUID returned
\*   diffs: how often Diff / DiffStructured was called
\*   rawResults, toolResults: what Diff / DiffStructured returned
NoSteps == [kubeconfig |-> "none", match |-> "none", client |-> "none", uid |-> "none",
            lookups |-> 0, lookupNS |-> "", actualUID |-> "", lookupErr |-> NIL,
            diff |-> "none", diffs |-> 0, rawResults |-> "", toolResults |-> NilSlice,
            present |-> "none"]
NoConfig == [Cluster |-> "", UID |-> "", KubeConfigPath |-> "", loaded |-> FALSE]
NoRet == [results |-> NilSlice, rawDiffs |-> "", err |-> NIL, returned |-> FALSE]


\* One line of the command's log output; PrintFull's output carries the results.
LogLine(kind, text) == [kind |-> kind, text |-> text, results |-> NilSlice]
Printed(res) == [kind |-> "PrintFull", text |-> "", results |-> res]

\* Sequences over S of a length in lo..hi.
SeqsOf(S, lo, hi) == UNION {[1..n -> S] : n \in lo..hi}

\* ================================================================ diff
\* diffClusterPath returns e from one of its own checks (before execDiff).
\* (Variant that drops the error.)
FailIgnored(e) ==
    /\ err' = NIL
    /\ origin' = e
    /\ pc' = "ret"

Fail(e) ==
    /\ err' = e
    /\ origin' = e
    /\ pc' = "ret"

\* execDiff returns after the client was created: the deferred kubeClient.Close()
\* runs on the way out.
\* (Variant without the defer on the error paths.)
ExecReturnLeak(res, raw, e) ==
    /\ execRet' = [results |-> res, rawDiffs |-> raw, err |-> e, returned |-> TRUE]
    /\ clientOpen' = (e # NIL)
    /\ pc' = "execret"

ExecReturn(res, raw, e) ==
    /\ execRet' = [results |-> res, rawDiffs |-> raw, err |-> e, returned |-> TRUE]
    /\ clientOpen' = FALSE
    /\ pc' = "execret"

\* diffRun, outer loop: the next arg is globbed; a bad pattern ends the run.
DiffRunLoop ==
    /\ pc = "loop"
    /\ IF argIdx > Len(args)
         THEN /\ pc' = "done"
              /\ retErr' = NIL
              /\ UNCHANGED <<paths, pathIdx, origin>>
         ELSE LET g == Glob(args[argIdx]) IN
              IF g.err # NIL
                THEN /\ pc' = "done"
                     /\ retErr' = g.err
                     /\ origin' = g.err
                     /\ UNCHANGED <<paths, pathIdx>>
                ELSE /\ paths' = g.paths
                     /\ pathIdx' = 1
                     /\ pc' = "paths"
                     /\ UNCHANGED <<retErr, origin>>
    /\ UNCHANGED <<flags, envKubeconfig, args, argIdx, clusterConfig, kubeConfig,
                   clientOpen, execRet, err, log, steps>>
    /\ UNCHANGED <<trace, kdiffVars, lockVars>>

\* The entries of trace: diffClusterPath called for a path, and its return.
Called(path) == [ev |-> "call", path |-> path, err |-> NIL]
Returned(path, e) == [ev |-> "return", path |-> path, err |-> e]

\* for _, path := range paths: the path of iteration i.
\* (Variant that walks the paths from the end.)
PathAtReversed(ps, i) == ps[Len(ps) + 1 - i]

PathAt(ps, i) == ps[i]

\* diffRun, inner loop: diffClusterPath is entered for the next path.
DiffRunNextPath ==
    /\ pc = "paths"
    /\ IF pathIdx > Len(paths)
         THEN /\ argIdx' = argIdx + 1
              /\ pc' = "loop"
              /\ UNCHANGED <<clusterConfig, kubeConfig, execRet, err, steps, origin,
                             trace>>
         ELSE /\ pc' = "load"
              /\ trace' = Append(trace, Called(PathAt(paths, pathIdx)))
              /\ clusterConfig' = NoConfig
              /\ kubeConfig' = ""
              /\ execRet' = NoRet
              /\ err' = NIL
              /\ steps' = NoSteps
              /\ origin' = NIL
              /\ UNCHANGED argIdx
    /\ UNCHANGED <<flags, envKubeconfig, args, paths, pathIdx, clientOpen, retErr, log>>
    /\ UNCHANGED <<kdiffVars, lockVars>>

\* What no step of diffClusterPath before execDiff changes.
PreExecUnchanged ==
    /\ UNCHANGED <<flags, envKubeconfig, args, argIdx, paths, pathIdx, clientOpen,
                   execRet, retErr>>
    /\ UNCHANGED <<trace, kdiffVars, lockVars>>

\* config.LoadClusterConfig(path, "")
LoadClusterConfig ==
    /\ pc = "load"
    /\ \/ /\ Fail("ErrLoadClusterConfig")
          /\ UNCHANGED clusterConfig
       \/ \E c \in ClusterNames, uid \in RecordedUIDs :
            /\ clusterConfig' = [Cluster |-> c, UID |-> uid, KubeConfigPath |-> "",
                                 loaded |-> TRUE]
            /\ pc' = "version"
            /\ UNCHANGED <<err, origin>>
    /\ UNCHANGED <<kubeConfig, log, steps>>
    /\ PreExecUnchanged

\* clusterConfig.CheckVersion(version.Version)
CheckVersion ==
    /\ pc = "version"
    /\ \/ Fail("ErrCheckVersion")
       \/ /\ pc' = "expand"
          /\ UNCHANGED <<err, origin>>
    /\ UNCHANGED <<clusterConfig, kubeConfig, log, steps>>
    /\ PreExecUnchanged

\* expandCluster, when --expand is set; then the "Diffing cluster" log line.
ExpandCluster ==
    /\ pc = "expand"
    /\ \/ /\ flags.expand
          /\ Fail("ErrExpandCluster")
          /\ UNCHANGED log
       \/ /\ pc' = "direxists"
          /\ log' = Append(log, LogLine("Diffing cluster", clusterConfig.Cluster))
          /\ UNCHANGED <<err, origin>>
    /\ UNCHANGED <<clusterConfig, kubeConfig, steps>>
    /\ PreExecUnchanged

\* util.DirExists(clusterConfig.ExpandedPath)
DirExists ==
    /\ pc = "direxists"
    /\ \/ Fail("ErrDirExists")
       \/ Fail("ErrExpandedPathDoesNotExist")
       \/ /\ pc' = "kubeconfig"
          /\ UNCHANGED <<err, origin>>
    /\ UNCHANGED <<clusterConfig, kubeConfig, log, steps>>
    /\ PreExecUnchanged

\* The kubeconfig source: the --kubeconfig flag, else $KUBECONFIG; "" when neither
\* is set.
\* (Variant that consults the environment first.)
ResolveEnvFirst(flag, env) == IF env = "" THEN flag ELSE env

ResolveKubeconfig(flag, env) == IF flag = "" THEN env ELSE flag

SelectKubeconfig ==
    /\ pc = "kubeconfig"
    /\ LET kc == ResolveKubeconfig(flags.kubeConfig, envKubeconfig) IN
       IF kc = ""
         THEN /\ Fail("ErrNoKubeconfig")
              /\ steps' = [steps EXCEPT !.kubeconfig = "fail"]
              /\ UNCHANGED kubeConfig
         ELSE /\ kubeConfig' = kc
              /\ steps' = [steps EXCEPT !.kubeconfig = "ok"]
              /\ pc' = "match"
              /\ UNCHANGED <<err, origin>>
    /\ UNCHANGED <<clusterConfig, log>>
    /\ PreExecUnchanged

\* What no step of execDiff changes.
ExecUnchanged ==
    /\ UNCHANGED <<flags, envKubeconfig, args, argIdx, paths, pathIdx, kubeConfig,
                   err, retErr>>
    /\ UNCHANGED <<trace, kdiffVars, lockVars>>

\* kube.KubeconfigMatchesCluster, then the config is pointed at the kubeconfig.
\* (Variant that ignores the result of the match.)
MatchClusterIgnored ==
    /\ pc = "match"
    /\ steps' = [steps EXCEPT !.match = "ok"]
    /\ clusterConfig' = [clusterConfig EXCEPT !.KubeConfigPath = kubeConfig]
    /\ pc' = "newclient"
    /\ UNCHANGED <<err, origin>>
    /\ UNCHANGED <<kubeConfig, log>>
    /\ PreExecUnchanged

MatchCluster ==
    /\ pc = "match"
    /\ IF ~KubeconfigMatchesCluster(kubeConfig, clusterConfig.Cluster)
         THEN /\ Fail("ErrKubeconfigDoesNotReferenceCluster")
              /\ steps' = [steps EXCEPT !.match = "fail"]
              /\ UNCHANGED clusterConfig
         ELSE /\ steps' = [steps EXCEPT !.match = "ok"]
              /\ clusterConfig' = [clusterConfig EXCEPT !.KubeConfigPath = kubeConfig]
              /\ pc' = "newclient"
              /\ UNCHANGED <<err, origin>>
    /\ UNCHANGED <<kubeConfig, log>>
    /\ PreExecUnchanged

\* execDiff up to the deferred Close: cluster.NewKubeClusterClient.
NewKubeClusterClient ==
    /\ pc = "newclient"
    /\ log' = Append(log, LogLine("Generating diff", ""))
    /\ \/ /\ execRet' = [results |-> NilSlice, rawDiffs |-> "",
                         err |-> "ErrNewKubeClusterClient", returned |-> TRUE]
          /\ origin' = "ErrNewKubeClusterClient"
          /\ steps' = [steps EXCEPT !.client = "fail"]
          /\ pc' = "execret"
          /\ UNCHANGED clientOpen
       \/ /\ clientOpen' = TRUE
          /\ steps' = [steps EXCEPT !.client = "ok"]
          /\ pc' = "uid"
          /\ UNCHANGED <<execRet, origin>>
    /\ UNCHANGED clusterConfig
    /\ ExecUnchanged

\* The cluster UID check: kubeClient.GetNamespaceUID(ctx, "kube-system") when a
\* UID is recorded, compared with the recorded one.
\* (Variants: one that never looks the UID up, one that looks it up and does not
\* compare it.)
VerifyUIDUnchecked ==
    /\ pc = "uid"
    /\ steps' = [steps EXCEPT !.uid = "skip"]
    /\ pc' = "diff"
    /\ UNCHANGED <<execRet, clientOpen, origin>>
    /\ UNCHANGED <<clusterConfig, log>>
    /\ ExecUnchanged

VerifyUIDNoCompare ==
    /\ pc = "uid"
    /\ IF clusterConfig.UID # ""
         THEN \/ /\ ExecReturn(NilSlice, "", "ErrGetNamespaceUID")
                 /\ origin' = "ErrGetNamespaceUID"
                 /\ steps' = [steps EXCEPT !.uid = "called", !.lookups = @ + 1,
                                           !.lookupNS = "kube-system",
                                           !.lookupErr = "ErrGetNamespaceUID"]
              \/ \E actualUID \in LiveUIDs :
                    /\ steps' = [steps EXCEPT !.uid = "called", !.lookups = @ + 1,
                                              !.lookupNS = "kube-system",
                                              !.actualUID = actualUID]
                    /\ pc' = "diff"
                    /\ UNCHANGED <<execRet, clientOpen, origin>>
         ELSE /\ steps' = [steps EXCEPT !.uid = "skip"]
              /\ pc' = "diff"
              /\ UNCHANGED <<execRet, clientOpen, origin>>
    /\ UNCHANGED <<clusterConfig, log>>
    /\ ExecUnchanged

\* (Variant that looks the UID up a second time when the first lookup failed.)
VerifyUIDRetry ==
    /\ pc = "uid"
    /\ IF clusterConfig.UID # ""
         THEN \/ /\ steps.lookups = 0
                 /\ steps' = [steps EXCEPT !.uid = "called", !.lookups = @ + 1,
                                           !.lookupNS = "kube-system"]
                 /\ UNCHANGED <<pc, execRet, clientOpen, origin>>
              \/ /\ steps.lookups > 0
                 /\ ExecReturn(NilSlice, "", "ErrGetNamespaceUID")
                 /\ origin' = "ErrGetNamespaceUID"
                 /\ steps' = [steps EXCEPT !.uid = "called", !.lookups = @ + 1,
                                           !.lookupNS = "kube-system",
                                           !.lookupErr = "ErrGetNamespaceUID"]
              \/ \E actualUID \in LiveUIDs :
                    /\ steps' = [steps EXCEPT !.uid = "called", !.lookups = @ + 1,
                                              !.lookupNS = "kube-system",
                                              !.actualUID = actualUID]
                    /\ IF clusterConfig.UID # actualUID
                         THEN /\ ExecReturn(NilSlice, "", "ErrUIDsDoNotMatch")
                              /\ origin' = "ErrUIDsDoNotMatch"
                         ELSE /\ pc' = "diff"
                              /\ UNCHANGED <<execRet, clientOpen, origin>>
         ELSE /\ steps' = [steps EXCEPT !.uid = "skip"]
              /\ pc' = "diff"
              /\ UNCHANGED <<execRet, clientOpen, origin>>
    /\ UNCHANGED <<clusterConfig, log>>
    /\ ExecUnchanged

\* (Variant that looks the UID up whether or not one is recorded.)
VerifyUIDAlways ==
    /\ pc = "uid"
    /\ \/ /\ ExecReturn(NilSlice, "", "ErrGetNamespaceUID")
          /\ origin' = "ErrGetNamespaceUID"
          /\ steps' = [steps EXCEPT !.uid = "called", !.lookups = @ + 1,
                                    !.lookupNS = "kube-system",
                                    !.lookupErr = "ErrGetNamespaceUID"]
       \/ \E actualUID \in LiveUIDs :
             /\ steps' = [steps EXCEPT !.uid = "called", !.lookups = @ + 1,
                                       !.lookupNS = "kube-system",
                                       !.actualUID = actualUID]
             /\ IF clusterConfig.UID # "" /\ clusterConfig.UID # actualUID
                  THEN /\ ExecReturn(NilSlice, "", "ErrUIDsDoNotMatch")
                       /\ origin' = "ErrUIDsDoNotMatch"
                  ELSE /\ pc' = "diff"
                       /\ UNCHANGED <<execRet, clientOpen, origin>>
    /\ UNCHANGED <<clusterConfig, log>>
    /\ ExecUnchanged

VerifyUID ==
    /\ pc = "uid"
    /\ IF clusterConfig.UID # ""
         THEN \/ /\ ExecReturn(NilSlice, "", "ErrGetNamespaceUID")
                 /\ origin' = "ErrGetNamespaceUID"
                 /\ steps' = [steps EXCEPT !.uid = "called", !.lookups = @ + 1,
                                           !.lookupNS = "kube-system",
                                           !.lookupErr = "ErrGetNamespaceUID"]
              \/ \E actualUID \in LiveUIDs :
                    /\ steps' = [steps EXCEPT !.uid = "called", !.lookups = @ + 1,
                                              !.lookupNS = "kube-system",
                                              !.actualUID = actualUID]
                    /\ IF clusterConfig.UID # actualUID
                         THEN /\ ExecReturn(NilSlice, "", "ErrUIDsDoNotMatch")
                              /\ origin' = "ErrUIDsDoNotMatch"
                         ELSE /\ pc' = "diff"
                              /\ UNCHANGED <<execRet, clientOpen, origin>>
         ELSE /\ steps' = [steps EXCEPT !.uid = "skip"]
              /\ pc' = "diff"
              /\ UNCHANGED <<execRet, clientOpen, origin>>
    /\ UNCHANGED <<clusterConfig, log>>
    /\ ExecUnchanged

\* What execDiff returns from the diff itself, per mode.
\* (Variant that returns both outputs in either mode.)
DiffReturnBoth(simpleOutput, raw, res, e) ==
    [results |-> res, rawDiffs |-> raw, err |-> e]

DiffReturn(simpleOutput, raw, res, e) ==
    IF simpleOutput
      THEN [results |-> NilSlice, rawDiffs |-> raw, err |-> e]
      ELSE [results |-> res, rawDiffs |-> "", err |-> e]

\* kubeClient.Diff (simple output) or kubeClient.DiffStructured.
RunDiff ==
    /\ pc = "diff"
    /\ \E raw \in RawTexts, res \in ResultSets, e \in {NIL, "ErrDiff"} :
         LET r == DiffReturn(flags.simpleOutput, raw, res, e) IN
         /\ ExecReturn(r.results, r.rawDiffs, r.err)
         /\ origin' = e
         /\ steps' = [steps EXCEPT
                        !.diff = IF flags.simpleOutput THEN "Diff" ELSE "DiffStructured",
                        !.diffs = @ + 1,
                        !.rawResults = IF flags.simpleOutput THEN raw ELSE "",
                        !.toolResults = IF flags.simpleOutput THEN NilSlice ELSE res]
    /\ UNCHANGED <<clusterConfig, log>>
    /\ ExecUnchanged

\* diffClusterPath after execDiff returned: the error with its hint, or the
\* results through diff.PrintFull, or the raw diff through the log.
HintLine == LogLine("hint", "Try re-running with --simple-output")

\* (Variant without the hint.)
ErrorLinesNoHint(e) == <<LogLine("Error running diff", e)>>

ErrorLines(e) == <<LogLine("Error running diff", e), HintLine>>

HandleExecResult ==
    /\ pc = "execret"
    /\ IF execRet.err # NIL
         THEN /\ log' = log \o ErrorLines(execRet.err)
              /\ err' = execRet.err
              /\ UNCHANGED steps
         ELSE IF ~execRet.results.nil
           THEN /\ log' = Append(log, Printed(execRet.results))
                /\ steps' = [steps EXCEPT !.present = "PrintFull"]
                /\ err' = NIL
           ELSE /\ log' = Append(log, LogLine("Raw diff results", execRet.rawDiffs))
                /\ steps' = [steps EXCEPT !.present = "raw"]
                /\ err' = NIL
    /\ pc' = "ret"
    /\ UNCHANGED <<flags, envKubeconfig, args, argIdx, paths, pathIdx, clusterConfig,
                   kubeConfig, clientOpen, execRet, retErr, origin>>
    /\ UNCHANGED <<trace, kdiffVars, lockVars>>

\* diffRun: the first failing target ends the run with its error.
\* (Variant that goes on with the next path after a failure.)
DiffRunReturnContinue ==
    /\ pc = "ret"
    /\ pathIdx' = pathIdx + 1
    /\ pc' = "paths"
    /\ retErr' = err
    /\ trace' = Append(trace, Returned(PathAt(paths, pathIdx), err))
    /\ UNCHANGED <<flags, envKubeconfig, args, argIdx, paths, clusterConfig, kubeConfig,
                   clientOpen, execRet, err, log, steps, origin>>
    /\ UNCHANGED <<kdiffVars, lockVars>>

DiffRunReturn ==
    /\ pc = "ret"
    /\ trace' = Append(trace, Returned(PathAt(paths, pathIdx), err))
    /\ IF err # NIL
         THEN /\ retErr' = err
              /\ pc' = "done"
              /\ UNCHANGED pathIdx
         ELSE /\ pathIdx' = pathIdx + 1
              /\ pc' = "paths"
              /\ UNCHANGED retErr
    /\ UNCHANGED <<flags, envKubeconfig, args, argIdx, paths, clusterConfig, kubeConfig,
                   clientOpen, execRet, err, log, steps, origin>>
    /\ UNCHANGED <<kdiffVars, lockVars>>

\* ================================================================ kdiff
\* ---- the structured-diff parser (diff.DiffKube) ----
\* A ResourceKey, and the keys the inputs are drawn from.
Key(ns, kind, name) == [namespace |-> ns, kind |-> kind, name |-> name]
NoKey == Key("", "", "")
Keys == {Key("", "Service", "web"), Key("apps", "ConfigMap", "web"),
         Key("apps", "Service", "api")}

\* Byte-wise order of the strings that occur in keys.
StrRank(str) ==
    CASE str = "" -> 0
      [] str = "ConfigMap" -> 1
      [] str = "Service" -> 2
      [] str = "api" -> 3
      [] str = "apps" -> 4
      [] str = "web" -> 5

\* ResourceKey order: namespace, then kind, then name.
KeyLess(a, b) ==
    \/ StrRank(a.namespace) < StrRank(b.namespace)
    \/ /\ a.namespace = b.namespace
       /\ \/ StrRank(a.kind) < StrRank(b.kind)
          \/ (a.kind = b.kind /\ StrRank(a.name) < StrRank(b.name))

\* One line of a raw body: the marker that opens a resource's segment, or a line
\* of the segment with its operation tag.
Marker(k) == [op |-> "marker", key |-> k, text |-> ""]
Line(op, text) == [op |-> op, key |-> NoKey, text |-> text]
OldLines == {Marker(k) : k \in Keys} \cup {Line("context", " port: 80"),
                                           Line("removed", "-port: 80")}
NewLines == {Marker(k) : k \in Keys} \cup {Line("context", " port: 80"),
                                           Line("added", "+port: 81")}
Bodies(lines, n) == SeqsOf(lines, 0, n)

\* A body conforms when every line lies inside a segment.
ValidBody(b) == b = <<>> \/ b[1].op = "marker"

\* The key of the segment line i of body b lies in.
OwnerAt(b, i) ==
    LET ms == {j \in 1..i : b[j].op = "marker"}
        last == CHOOSE j \in ms : \A m \in ms : m <= j
    IN b[last].key

\* The lines of body b in the segments of key k, from line i on, in order.
RECURSIVE SegLines(_, _, _)
SegLines(b, k, i) ==
    IF i > Len(b) THEN <<>>
    ELSE (IF b[i].op # "marker" /\ OwnerAt(b, i) = k
            THEN <<[op |-> b[i].op, text |-> b[i].text]>>
            ELSE <<>>) \o SegLines(b, k, i + 1)

\* The keys of the markers of b, in order of first appearance after those in seen.
RECURSIVE KeysInOrder(_, _, _)
KeysInOrder(b, i, seen) ==
    IF i > Len(b) THEN <<>>
    ELSE IF b[i].op = "marker" /\ b[i].key \notin seen
      THEN <<b[i].key>> \o KeysInOrder(b, i + 1, seen \cup {b[i].key})
      ELSE KeysInOrder(b, i + 1, seen)

MarkerKeys(b) == {b[i].key : i \in {j \in DOMAIN b : b[j].op = "marker"}}

\* The change kind of a segment.
Classify(k, old, new, hunks) ==
    LET ops == {hunks[i].op : i \in DOMAIN hunks} IN
    IF "added" \notin ops /\ "removed" \notin ops THEN "Unchanged"
    ELSE IF ops = {"added"} /\ k \notin MarkerKeys(old) THEN "Added"
    ELSE IF ops = {"removed"} /\ k \notin MarkerKeys(new) THEN "Removed"
    ELSE "Modified"

\* The short form of a record's hunks: the first and the last one.
Truncate(hunks) ==
    IF Len(hunks) <= 2 THEN hunks ELSE <<hunks[1], hunks[Len(hunks)]>>

\* The ChangeRecord of key k.
ChangeRecord(k, old, new, short) ==
    LET hunks == SegLines(old, k, 1) \o SegLines(new, k, 1) IN
    [key |-> k,
     change |-> Classify(k, old, new, hunks),
     hunks |-> IF short THEN Truncate(hunks) ELSE hunks,
     short |-> short]

\* Insertion of record r into the sorted sequence s, and the sort.
RECURSIVE InsertByKey(_, _)
InsertByKey(r, s) ==
    IF s = <<>> THEN <<r>>
    ELSE IF KeyLess(r.key, Head(s).key) THEN <<r>> \o s
    ELSE <<Head(s)>> \o InsertByKey(r, Tail(s))

RECURSIVE SortByKey(_)
SortByKey(s) == IF s = <<>> THEN <<>> ELSE InsertByKey(Head(s), SortByKey(Tail(s)))

\* (Variant that keeps the order of emission.)
Unsorted(s) == s

SortRecords(s) == SortByKey(s)

\* diff.DiffKube(oldRoot, newRoot, shortDiff): the records, or a ParseError.
DiffKube(old, new, short) ==
    IF ~ValidBody(old) \/ ~ValidBody(new)
      THEN [records |-> <<>>, err |-> "ParseError"]
      ELSE LET ks == KeysInOrder(old, 1, {}) \o KeysInOrder(new, 1, MarkerKeys(old))
               emitted == [i \in DOMAIN ks |-> ChangeRecord(ks[i], old, new, short)]
           IN [records |-> SortRecords(emitted), err |-> NIL]

\* ---- kdiffRun ----
TreePaths == {"old", "new"}
KArgLists == {<<"old">>, <<"old", "new">>, <<"old", "new", "true">>,
              <<"old", "new", "x">>}

\* strconv.ParseBool
ParseBool(str) ==
    IF str \in {"1", "t", "T", "TRUE", "true", "True"} THEN [value |-> TRUE, err |-> NIL]
    ELSE IF str \in {"0", "f", "F", "FALSE", "false", "False"}
      THEN [value |-> FALSE, err |-> NIL]
    ELSE [value |-> FALSE, err |-> "ErrSyntax"]

\* var shortDiff bool: Go's zero value. (Variant: set.)
ShortDiffSet == TRUE

ShortDiffDefault == FALSE

\* json.MarshalIndent of diff.Results: one object with the field "results"; a nil
\* slice is written as null, any other slice as an array.
\* (Variant that marshals the record list itself, without the envelope.)
MarshalBare(w) ==
    [top |-> "array", field |-> "", null |-> w.Results.nil, items |-> w.Results.elems]

MarshalIndent(w) ==
    [top |-> "object", field |-> "results", null |-> w.Results.nil,
     items |-> w.Results.elems]

KdiffUnchanged == UNCHANGED <<diffVars, lockVars>>

\* len(args) != 2
\* (Variant that only rejects too few arguments.)
TooFewArgs(n) == n < 2

WrongArgCount(n) == n # 2

\* The argument check and the (unreachable) parse of a third argument.
KdiffCheckArgs ==
    /\ kpc = "start"
    /\ IF WrongArgCount(Len(kargs))
         THEN /\ kerr' = "ErrExpectedExactlyTwoArguments"
              /\ kpc' = "done"
              /\ UNCHANGED shortDiff
         ELSE IF Len(kargs) = 3
           THEN LET b == ParseBool(kargs[3]) IN
                IF b.err # NIL
                  THEN kerr' = b.err /\ kpc' = "done" /\ UNCHANGED shortDiff
                  ELSE shortDiff' = b.value /\ kpc' = "parse" /\ UNCHANGED kerr
           ELSE shortDiff' = ShortDiffDefault /\ kpc' = "parse" /\ UNCHANGED kerr
    /\ UNCHANGED <<trees, kargs, results, wrappedResults, stdout, parserCalls>>
    /\ KdiffUnchanged

\* The write of the envelope to standard output, reached only when DiffKube
\* returned no error. (Variant: written before the error is looked at.)
EmitAlways(doc, e) == <<doc>>

Emit(doc, e) == IF e # NIL THEN <<>> ELSE <<doc>>

\* diff.DiffKube, the envelope, json.MarshalIndent and fmt.Println. An empty record
\* list may be a nil or an empty slice. (MarshalIndent does not fail on this type.)
KdiffRunParse ==
    /\ kpc = "parse"
    /\ LET r == DiffKube(trees[kargs[1]], trees[kargs[2]], shortDiff) IN
       \E isNil \in {r.records = <<>>, FALSE} :
         LET res == IF isNil THEN NilSlice ELSE Slice(r.records)
             w == [Results |-> res]
         IN /\ results' = res
            /\ kerr' = r.err
            /\ wrappedResults' = IF r.err # NIL THEN wrappedResults ELSE w
            /\ stdout' = stdout \o Emit(MarshalIndent(w), r.err)
    /\ parserCalls' = Append(parserCalls, shortDiff)
    /\ kpc' = "done"
    /\ UNCHANGED <<trees, kargs, shortDiff>>
    /\ KdiffUnchanged

\* No concurrent invocations.
LockIdle ==
    /\ requests = <<>>
    /\ holders = [c \in ClusterNames |-> {}]

DiffIdle ==
    /\ flags = [expand |-> FALSE, kubeConfig |-> "", simpleOutput |-> FALSE]
    /\ envKubeconfig = ""
    /\ args = <<>>
    /\ argIdx = 1
    /\ paths = <<>>
    /\ pathIdx = 1
    /\ pc = "idle"
    /\ clusterConfig = NoConfig
    /\ kubeConfig = ""
    /\ clientOpen = FALSE
    /\ execRet = NoRet
    /\ err = NIL
    /\ retErr = NIL
    /\ log = <<>>
    /\ steps = NoSteps
    /\ origin = NIL
    /\ trace = <<>>

\* The bodies are read only when exactly two arguments are given.
InitKdiff ==
    /\ kargs \in KArgLists
    /\ trees \in IF Len(kargs) = 2
                   THEN {[p \in TreePaths |-> IF p = "old" THEN o ELSE n] :
                            o \in Bodies(OldLines, MaxOldLen),
                            n \in Bodies(NewLines, MaxNewLen)}
                   ELSE {[p \in TreePaths |-> <<>>]}
    /\ kpc = "start"
    /\ shortDiff = FALSE
    /\ results = NilSlice
    /\ wrappedResults = [Results |-> NilSlice]
    /\ kerr = NIL
    /\ stdout = <<>>
    /\ parserCalls = <<>>
    /\ DiffIdle
    /\ LockIdle

NextKdiff ==
    \/ KdiffCheckArgs
    \/ KdiffRunParse

SpecKdiff == InitKdiff /\ [][NextKdiff]_vars

KdiffIdle ==
    /\ trees = [p \in TreePaths |-> <<>>]
    /\ kargs = <<>>
    /\ kpc = "idle"
    /\ shortDiff = FALSE
    /\ results = NilSlice
    /\ wrappedResults = [Results |-> NilSlice]
    /\ kerr = NIL
    /\ stdout = <<>>
    /\ parserCalls = <<>>

Init ==
    /\ flags \in [expand : BOOLEAN, kubeConfig : {"", "flag.kubeconfig"},
                  simpleOutput : BOOLEAN]
    /\ envKubeconfig \in {"", "env.kubeconfig"}
    /\ args \in SeqsOf(ArgSet, 1, MaxArgs)
    /\ argIdx = 1
    /\ paths = <<>>
    /\ pathIdx = 1
    /\ pc = "loop"
    /\ clusterConfig = NoConfig
    /\ kubeConfig = ""
    /\ clientOpen = FALSE
    /\ execRet = NoRet
    /\ err = NIL
    /\ retErr = NIL
    /\ log = <<>>
    /\ steps = NoSteps
    /\ origin = NIL
    /\ trace = <<>>
    /\ KdiffIdle
    /\ LockIdle

Next ==
    \/ DiffRunLoop
    \/ DiffRunNextPath
    \/ LoadClusterConfig
    \/ CheckVersion
    \/ ExpandCluster
    \/ DirExists
    \/ SelectKubeconfig
    \/ MatchCluster
    \/ NewKubeClusterClient
    \/ VerifyUID
    \/ RunDiff
    \/ HandleExecResult
    \/ DiffRunReturn

Spec == Init /\ [][Next]_vars

\* The command is one sequential flow: as long as a statement is left to run and the
\* call it makes returns, it runs.
SpecFair == Spec /\ WF_vars(Next)

\* ================================================================ cluster lock
\* The per-cluster lock behind kube.NewKubeClusterClient's UseLocks option, and
\* the orchestrator's use of it, as the specification describes them: NumProcs
\* invocations, each one DiffRequest against a cluster.
Procs == 1..NumProcs

LockUnchanged == UNCHANGED <<diffVars, kdiffVars>>

SetState(p, st) == [requests EXCEPT ![p].state = st]

\* The lock of cluster c is exclusive: it can be taken only while nobody holds it.
\* (Variant that does not look at the holder.)
LockFreeAlways(c) == TRUE

LockFree(c) == holders[c] = {}

\* Release is unconditional: whatever p holds is given up.
Release(p) == [c \in ClusterNames |-> holders[c] \ {p}]

\* Idle -> Verifying.
LockStart(p) ==
    /\ requests[p].state = "Idle"
    /\ requests' = SetState(p, "Verifying")
    /\ UNCHANGED holders
    /\ LockUnchanged

\* Verifying: the guard passes (on to Locking when concurrency protection is enabled
\* for the target, else to Running) or fails.
LockVerify(p) ==
    /\ requests[p].state = "Verifying"
    /\ \E ok \in BOOLEAN :
         requests' = SetState(p, IF ~ok THEN "Failed"
                                 ELSE IF requests[p].useLocks THEN "Locking"
                                 ELSE "Running")
    /\ UNCHANGED holders
    /\ LockUnchanged

\* Locking: blocks until the lock of the request's cluster is acquired.
LockAcquire(p) ==
    /\ requests[p].state = "Locking"
    /\ LockFree(requests[p].cluster)
    /\ holders' = [holders EXCEPT ![requests[p].cluster] = @ \cup {p}]
    /\ requests' = SetState(p, "Running")
    /\ LockUnchanged

\* Locking: the caller's deadline elapses first (LockTimeout).
LockTimeout(p) ==
    /\ requests[p].state = "Locking"
    /\ requests' = [requests EXCEPT ![p].state = "Failed", ![p].err = "LockTimeout"]
    /\ UNCHANGED holders
    /\ LockUnchanged

\* Running: the diff succeeds (on to Parsing in structured mode, Done in simple
\* mode) or fails; every exit releases the lock.
LockRun(p) ==
    /\ requests[p].state = "Running"
    /\ \E ok \in BOOLEAN :
         LET st == IF ~ok THEN "Failed"
                   ELSE IF requests[p].simpleOutput THEN "Done" ELSE "Parsing" IN
         /\ requests' = SetState(p, st)
         /\ holders' = IF st = "Parsing" THEN holders ELSE Release(p)
    /\ LockUnchanged

\* Parsing: the parser succeeds or fails; either way the lock is released.
LockParse(p) ==
    /\ requests[p].state = "Parsing"
    /\ \E ok \in BOOLEAN : requests' = SetState(p, IF ok THEN "Done" ELSE "Failed")
    /\ holders' = Release(p)
    /\ LockUnchanged

InitLock ==
    /\ requests \in [Procs -> [state : {"Idle"}, cluster : ClusterNames,
                               useLocks : BOOLEAN, simpleOutput : BOOLEAN,
                               err : {NIL}]]
    /\ holders = [c \in ClusterNames |-> {}]
    /\ DiffIdle
    /\ KdiffIdle

NextLock ==
    \E p \in Procs :
        \/ LockStart(p)
        \/ LockVerify(p)
        \/ LockAcquire(p)
        \/ LockTimeout(p)
        \/ LockRun(p)
        \/ LockParse(p)

SpecLock == InitLock /\ [][NextLock]_vars

\* ================================================================ claims: diff
\* The name check of the current target was made.
NameChecked == steps.match # "none"
NameMatches == KubeconfigMatchesCluster(kubeConfig, clusterConfig.Cluster)
\* The live identifier was fetched and equals the recorded one.
UIDVerified ==
    /\ steps.uid = "called"
    /\ steps.lookupErr = NIL
    /\ steps.actualUID = clusterConfig.UID
\* No cluster client, no identifier lookup and no diff in the current target's run.
NothingExecuted ==
    /\ steps.client = "none"
    /\ steps.uid = "none"
    /\ steps.diff = "none"
    /\ ~clientOpen
    /\ ~execRet.returned
LastLogIsHint == Len(log) > 0 /\ log[Len(log)] = HintLine

\* C1: a target whose kubeconfig does not reference the expected cluster name fails
\* in diffClusterPath, with or without a recorded UID, and its run creates no cluster
\* client, makes no identifier lookup and invokes neither Diff nor DiffStructured.
C1_NameMismatchFails ==
    (NameChecked /\ ~NameMatches) =>
        /\ pc \in {"ret", "done"}
        /\ err # NIL
        /\ NothingExecuted

C1_Witness ==
    /\ pc = "ret"
    /\ NameChecked /\ ~NameMatches
    /\ clusterConfig.UID # ""
    /\ err = "ErrKubeconfigDoesNotReferenceCluster"

\* C2: with a recorded UID, a failed lookup of the kube-system UID, or a live UID
\* that differs from the recorded one, makes execDiff fail although the cluster name
\* matched, and neither Diff nor DiffStructured is invoked.
C2_UIDMismatchFails ==
    (steps.uid = "called" /\ ~UIDVerified) =>
        /\ clusterConfig.UID # ""
        /\ NameMatches
        /\ pc \in {"execret", "ret", "done"}
        /\ execRet.returned
        /\ execRet.err \in {"ErrGetNamespaceUID", "ErrUIDsDoNotMatch"}
        /\ steps.diff = "none"

C2_Witness ==
    /\ pc = "execret"
    /\ clusterConfig.UID = "abc-123"
    /\ steps.uid = "called"
    /\ steps.lookupErr = NIL
    /\ steps.actualUID = "xyz-789"
    /\ NameMatches
    /\ execRet.err = "ErrUIDsDoNotMatch"

C4_ClientClosedOnReturn ==
    /\ execRet.returned => ~clientOpen
    /\ clientOpen => (pc \in {"uid", "diff"} /\ steps.client = "ok")

C4_Witness ==
    /\ pc = "execret"
    /\ steps.client = "ok"
    /\ steps.diff # "none"
    /\ execRet.err = "ErrDiff"
    /\ ~clientOpen

\* C5: a successful execDiff returns the output of the requested mode and only that
\* one: simple mode gives nil results and Diff's raw text, structured mode gives an
\* empty raw text and DiffStructured's results; never results together with raw text.
C5_OneOutputPerMode ==
    (execRet.returned /\ execRet.err = NIL) =>
        /\ flags.simpleOutput =>
              (execRet.results.nil /\ execRet.rawDiffs = steps.rawResults)
        /\ ~flags.simpleOutput =>
              (execRet.rawDiffs = "" /\ execRet.results = steps.toolResults)
        /\ ~(~execRet.results.nil /\ execRet.rawDiffs # "")

C5_Witness ==
    /\ pc = "execret"
    /\ execRet.err = NIL
    /\ flags.simpleOutput
    /\ steps.diff = "Diff"
    /\ execRet.rawDiffs = "raw-diff"
    /\ execRet.results.nil

\* C6: the kubeconfig is the --kubeconfig value when that is set, whatever the
\* environment holds; $KUBECONFIG only when the flag is empty; with both empty
\* diffClusterPath fails before the name check, the client and any diff.
C6_KubeconfigResolution ==
    steps.kubeconfig # "none" =>
        /\ flags.kubeConfig # "" =>
              (steps.kubeconfig = "ok" /\ kubeConfig = flags.kubeConfig)
        /\ (flags.kubeConfig = "" /\ envKubeconfig # "") =>
              (steps.kubeconfig = "ok" /\ kubeConfig = envKubeconfig)
        /\ (flags.kubeConfig = "" /\ envKubeconfig = "") =>
              /\ pc \in {"ret", "done"}
              /\ err = "ErrNoKubeconfig"
              /\ steps.match = "none"
              /\ NothingExecuted
        /\ clusterConfig.KubeConfigPath \in {"", kubeConfig}

C6_Witness ==
    /\ pc = "newclient"
    /\ flags.kubeConfig = "flag.kubeconfig"
    /\ envKubeconfig = "env.kubeconfig"
    /\ clusterConfig.KubeConfigPath = "flag.kubeconfig"

\* C7 as stated: a target that fails in identity verification, client/lock
\* acquisition or the diff returns the originating error and the hint is logged.
StepErrors == {"ErrKubeconfigDoesNotReferenceCluster", "ErrNewKubeClusterClient",
               "ErrGetNamespaceUID", "ErrUIDsDoNotMatch", "ErrDiff"}

C7_HintOnEveryFailure ==
    (pc = "ret" /\ origin \in StepErrors) => (err = origin /\ LastLogIsHint)

\* C7 as amended: a failing target returns the originating error unmodified, and so
\* does diffRun; the hint is logged exactly when the failure happened inside execDiff
\* (client creation, identifier lookup or comparison, diff), not when diffClusterPath
\* itself rejected the target (the kubeconfig name mismatch included).
C7_ErrorUnmodifiedHintAfterExecDiff ==
    /\ (pc = "ret" /\ origin # NIL) =>
          /\ err = origin
          /\ LastLogIsHint <=> execRet.returned
    /\ (pc = "ret" /\ origin = NIL) => (err = NIL /\ ~LastLogIsHint)
    /\ (pc = "done" /\ origin # NIL) => retErr = origin

C7_Witness ==
    /\ pc = "done"
    /\ origin = "ErrUIDsDoNotMatch"
    /\ retErr = "ErrUIDsDoNotMatch"
    /\ LastLogIsHint

\* The errors diffClusterPath returns before it calls execDiff.
PreExecErrors == {"ErrLoadClusterConfig", "ErrCheckVersion", "ErrExpandCluster",
                  "ErrDirExists", "ErrExpandedPathDoesNotExist", "ErrNoKubeconfig",
                  "ErrKubeconfigDoesNotReferenceCluster"}
\* A step of the current target's request failed.
RequestFailed == origin \notin {NIL, "ErrBadPattern"}

\* C13: nothing is retried: within one request the live identifier is looked up at
\* most once and the diff is invoked at most once, and once a step has failed no
\* further step of the request runs.
C13_NoRetry ==
    /\ steps.lookups <= 1
    /\ steps.diffs <= 1
    /\ RequestFailed =>
          /\ pc \in {"execret", "ret", "done"}
          /\ steps.present = "none"
          /\ origin \in PreExecErrors => NothingExecuted
          /\ origin = "ErrNewKubeClusterClient" =>
                (steps.client = "fail" /\ steps.lookups = 0 /\ steps.diffs = 0)
          /\ origin \in {"ErrGetNamespaceUID", "ErrUIDsDoNotMatch"} =>
                (steps.lookups = 1 /\ steps.diffs = 0)
          /\ origin = "ErrDiff" => steps.diffs = 1

C13_Witness ==
    /\ pc = "done"
    /\ origin = "ErrGetNamespaceUID"
    /\ retErr = "ErrGetNamespaceUID"
    /\ steps.lookups = 1
    /\ steps.diffs = 0

\* C16: the live identifier is looked up exactly when a non-empty identifier is
\* recorded: then once, for kube-system, and the diff is invoked only after the
\* lookup returned the recorded value; with no recorded identifier there is no
\* lookup and the diff follows the name match alone.
C16_LookupIffRecorded ==
    /\ steps.lookups = (IF steps.uid = "called" THEN 1 ELSE 0)
    /\ steps.uid = "called" => steps.lookupNS = "kube-system"
    /\ steps.uid # "none" => (steps.uid = "called" <=> clusterConfig.UID # "")
    /\ steps.diff # "none" =>
          IF clusterConfig.UID # ""
            THEN /\ steps.lookups = 1
                 /\ steps.lookupErr = NIL
                 /\ steps.actualUID = clusterConfig.UID
            ELSE /\ steps.lookups = 0
                 /\ NameChecked /\ NameMatches

C16_Witness ==
    /\ pc = "execret"
    /\ clusterConfig.UID = ""
    /\ steps.uid = "skip"
    /\ steps.lookups = 0
    /\ steps.diffs = 1
    /\ execRet.err = NIL

\* The targets of the invocation in the order supplied: the paths of each arg's
\* glob, up to the first bad pattern.
RECURSIVE TargetsFrom(_)
TargetsFrom(i) ==
    IF i > Len(args) \/ Glob(args[i]).err # NIL THEN <<>>
    ELSE Glob(args[i]).paths \o TargetsFrom(i + 1)
Targets == TargetsFrom(1)
\* The statements of diffClusterPath and execDiff.
TargetPcs == {"load", "version", "expand", "direxists", "kubeconfig", "match",
              "newclient", "uid", "diff", "execret", "ret"}
\* A call of diffClusterPath has not returned to diffRun yet.
InTarget == Len(trace) % 2 = 1

\* C14: the targets are processed one at a time in the order supplied: calls of
\* diffClusterPath and their returns alternate, the k-th call is for the k-th target,
\* every step of a target lies between its call and its return, and when a target
\* has reached its terminal state, or none is in progress, no client is open.
C14_OneTargetAtATime ==
    /\ \A i \in DOMAIN trace :
          /\ trace[i].ev = (IF i % 2 = 1 THEN "call" ELSE "return")
          /\ i % 2 = 0 => trace[i].path = trace[i - 1].path
          /\ i % 2 = 1 =>
                /\ (i + 1) \div 2 <= Len(Targets)
                /\ trace[i].path = Targets[(i + 1) \div 2]
    /\ pc \in TargetPcs <=> InTarget
    /\ (clientOpen \/ pc \in {"uid", "diff"}) => (InTarget /\ pc # "ret")
    /\ pc \in {"ret", "paths", "loop", "done"} => ~clientOpen

C14_Witness ==
    /\ pc = "diff"
    /\ Len(trace) = 3
    /\ trace[1].path = "c1.yaml"
    /\ trace[2].err = NIL
    /\ trace[3].path = "c2.yaml"
    /\ clientOpen

\* C18: the first failing target ends the batch: diffRun returns that target's error
\* and diffClusterPath is never called for a later target.
C18_AbortOnFirstFailure ==
    /\ \A i \in DOMAIN trace :
          (trace[i].ev = "return" /\ trace[i].err # NIL) =>
              /\ i = Len(trace)
              /\ pc = "done"
              /\ retErr = trace[i].err
    /\ (pc = "done" /\ retErr = NIL) => Len(trace) = 2 * Len(Targets)

C18_Witness ==
    /\ pc = "done"
    /\ Len(Targets) >= 3
    /\ Len(trace) = 2
    /\ trace[2].err = "ErrCheckVersion"
    /\ retErr = "ErrCheckVersion"

\* C17: after a successful diff the presentation path matches the requested mode
\* for every result, the empty result set included: structured mode goes through
\* diff.PrintFull and never the raw-text log line, simple mode the other way round.
\* (Violated: diffClusterPath chooses by results != nil, not by the mode, so a nil
\* slice from DiffStructured is logged as raw text.)
C17_PresentationMatchesMode ==
    (pc = "ret" /\ err = NIL) =>
        /\ steps.present \in {"PrintFull", "raw"}
        /\ flags.simpleOutput => steps.present = "raw"
        /\ ~flags.simpleOutput => steps.present = "PrintFull"

\* The state of the DiffRequest of the current target. The request is built from
\* the cluster config (Idle); the kubeconfig is resolved and matched by name, the
\* client is created and the live identifier compared through it (Verifying);
\* the client is created with UseLocks: false, so no lock stage is entered; Diff or
\* DiffStructured, which runs and parses in one call, is Running; the request is
\* Done or Failed once execDiff or one of diffClusterPath's own checks has returned.
ReqState ==
    CASE pc \in {"load", "version", "expand", "direxists"} -> "Idle"
      [] pc \in {"kubeconfig", "match", "newclient", "uid"} -> "Verifying"
      [] pc = "diff" -> "Running"
      [] pc = "execret" -> IF execRet.err = NIL THEN "Done" ELSE "Failed"
      [] pc = "ret" -> IF err = NIL THEN "Done" ELSE "Failed"
      [] OTHER -> "None"
Working == {"Idle", "Verifying", "Locking", "Running", "Parsing"}
Terminal == {"Done", "Failed"}
\* The transitions of the state machine; Locking and Parsing may be passed over.
Transitions ==
    {<<"Idle", "Verifying">>, <<"Verifying", "Locking">>, <<"Verifying", "Running">>,
     <<"Locking", "Running">>, <<"Running", "Parsing">>, <<"Running", "Done">>,
     <<"Parsing", "Done">>}
        \cup {<<w, "Failed">> : w \in Working}
\* One step of the command, seen from the request of the current target.
RequestStep ==
    \/ /\ ReqState = "None"
       /\ ReqState' \in {"None", "Idle"}
    \/ /\ ReqState \in Working
       /\ ReqState' = ReqState \/ <<ReqState, ReqState'>> \in Transitions
    \/ /\ ReqState \in Terminal
       /\ \/ ReqState' = ReqState
          \/ /\ ReqState' = "None"
             /\ trace' = Append(trace, Returned(trace[Len(trace)].path, err))
             /\ ReqState = "Failed" <=> err # NIL

\* C15: every DiffRequest follows only the transitions Idle -> Verifying ->
\* (Locking) -> Running -> Parsing -> Done, or one from a non-terminal state to
\* Failed; no transition leaves Done or Failed before the request is returned with
\* that outcome; and every request that has begun eventually reaches Done or Failed.
C15_RequestStateMachine ==
    /\ [][RequestStep]_vars
    /\ (ReqState \in Working) ~> (ReqState \in Terminal)
    /\ [](ReqState = "None" <=> ~InTarget)

C15_Witness ==
    /\ pc = "ret"
    /\ ReqState = "Done"
    /\ Len(trace) = 3
    /\ trace[2].err = NIL
    /\ steps.diff # "none"
    /\ steps.uid = "called"

\* ================================================================ claims: lock
\* The invocations with concurrency protection that are in Running or Parsing
\* for cluster c.
Protected(c) ==
    {p \in Procs : /\ requests[p].cluster = c
                   /\ requests[p].useLocks
                   /\ requests[p].state \in {"Running", "Parsing"}}

OldBody == trees[kargs[1]]
NewBody == trees[kargs[2]]
\* kdiffRun ran the parser on two arguments and returned.
KdiffParsed == kpc = "done" /\ Len(kargs) = 2
InputConforms == ValidBody(OldBody) /\ ValidBody(NewBody)
\* The records kdiffRun got, and the hunks of all of them, in order.
Records == results.elems
RECURSIVE AllHunks(_)
AllHunks(recs) == IF recs = <<>> THEN <<>> ELSE Head(recs).hunks \o AllHunks(Tail(recs))
\* The lines of the segments of a body, without the markers.
ContentLines(b) ==
    LET idx == {i \in DOMAIN b : b[i].op # "marker"} IN
    [i \in idx |-> [op |-> b[i].op, text |-> b[i].text]]
RangeOf(f) == {f[i] : i \in DOMAIN f}
\* How often x occurs as a value of the function or sequence f.
Count(f, x) == Cardinality({i \in DOMAIN f : f[i] = x})

\* C8: when the parser fails on the two inputs, kdiffRun returns that error and has
\* written nothing to standard output.
C8_ParseFailureWritesNothing ==
    (KdiffParsed /\ ~InputConforms) =>
        /\ kerr = "ParseError"
        /\ stdout = <<>>

C8_Witness ==
    /\ KdiffParsed
    /\ ValidBody(OldBody) /\ ~ValidBody(NewBody)
    /\ Len(OldBody) > 1
    /\ kerr = "ParseError"

KeyBefore(a, b) ==
    \/ StrRank(a.namespace) < StrRank(b.namespace)
    \/ a.namespace = b.namespace /\ StrRank(a.kind) < StrRank(b.kind)
    \/ a.namespace = b.namespace /\ a.kind = b.kind /\ StrRank(a.name) < StrRank(b.name)

C10_StrictlyOrderedByKey ==
    (KdiffParsed /\ kerr = NIL) =>
        LET recs == wrappedResults.Results.elems IN
        /\ Len(recs) = Cardinality(MarkerKeys(OldBody) \cup MarkerKeys(NewBody))
        /\ \A i, j \in DOMAIN recs : i < j => KeyBefore(recs[i].key, recs[j].key)

C10_Witness ==
    /\ KdiffParsed /\ kerr = NIL
    /\ Len(wrappedResults.Results.elems) = 3
    /\ OldBody # <<>> /\ OldBody[1] = Marker(Key("apps", "Service", "api"))
    /\ NewBody # <<>> /\ NewBody[1] = Marker(Key("", "Service", "web"))

\* C11: a successful kdiffRun writes exactly one JSON document; its top level is the
\* envelope object with the single field "results", whose elements are the records
\* in the order the parser returned them; the top level is the same for every number
\* of records, zero included.
C11_OneEnvelopeDocument ==
    /\ Len(stdout) <= 1
    /\ (KdiffParsed /\ kerr = NIL) =>
          /\ Len(stdout) = 1
          /\ stdout[1].top = "object"
          /\ stdout[1].field = "results"
          /\ stdout[1].items = Records
          /\ Records = DiffKube(OldBody, NewBody, FALSE).records

C11_Witness ==
    /\ KdiffParsed /\ kerr = NIL
    /\ OldBody = <<>> /\ NewBody = <<>>
    /\ Len(stdout) = 1
    /\ stdout[1].top = "object"
    /\ stdout[1].items = <<>>

\* C19: kdiffRun either rejects the argument list (whenever it does not hold exactly
\* two arguments) with the argument-count error, without calling the parser and
\* without output, or calls the parser once with shortDiff = false; the parser is
\* never called with shortDiff = true.
C19_ParserNeverShort ==
    /\ \A i \in DOMAIN parserCalls : parserCalls[i] = FALSE
    /\ ~shortDiff
    /\ (kpc # "start" /\ Len(kargs) # 2) =>
          /\ kpc = "done"
          /\ kerr = "ErrExpectedExactlyTwoArguments"
          /\ parserCalls = <<>>
          /\ stdout = <<>>
    /\ (kpc = "done" /\ Len(kargs) = 2) => parserCalls = <<FALSE>>

C19_Witness ==
    /\ kpc = "done"
    /\ kargs = <<"old", "new", "true">>
    /\ kerr = "ErrExpectedExactlyTwoArguments"
    /\ parserCalls = <<>>
====
